---- MODULE Spec2Model ----
(***************************************************************************)
(* The chat component of YewChat (src/YewChat/src/components/chat.rs) as a *)
(* state machine: Chat::create, the six arms of Chat::update and           *)
(* Chat::send_typing_status, together with the serde_json encoders and     *)
(* decoders derived for WebSocketMessage, MessageData and TypingStatus.    *)
(*                                                                         *)
(* Texts.  A Rust String is modelled as one of two kinds of text:          *)
(*   Raw(cs)  a text that is not a JSON document, cs its characters;       *)
(*   Doc(ms)  the text of a JSON object, ms its members in written order.  *)
(* A JSON string value holds a text again, so that the "data" field of an  *)
(* envelope can carry an encoded inner payload.                            *)
(***************************************************************************)
EXTENDS Naturals, Sequences, FiniteSets

(***************************************************************************)
(* Bounds of the model.                                                    *)
(***************************************************************************)
MaxTranscript == 2
MaxInput == 2

(***************************************************************************)
(* Option and Result.                                                      *)
(***************************************************************************)
None == [some |-> FALSE]
Some(x) == [some |-> TRUE, v |-> x]
Ok(x) == [ok |-> TRUE, v |-> x]
Err == [ok |-> FALSE]

(***************************************************************************)
(* Texts and JSON values.                                                  *)
(***************************************************************************)
Raw(cs) == [t |-> "raw", cs |-> cs]
Doc(ms) == [t |-> "obj", ms |-> ms]
JNull == [j |-> "null"]
JStr(s) == [j |-> "str", s |-> s]
JBool(b) == [j |-> "bool", b |-> b]
JArr(a) == [j |-> "arr", a |-> a]
Member(k, v) == [k |-> k, v |-> v]

Str(c) == Raw(<<c>>)
EmptyString == Raw(<<>>)

Contains(s, x) == \E i \in 1..Len(s) : s[i] = x

\* The members of a JSON object that carry the key k.
Field(ms, k) == SelectSeq(ms, LAMBDA m : m.k = k)

(***************************************************************************)
(* MsgTypes, #[serde(rename_all = "lowercase")].                           *)
(***************************************************************************)
MsgTypes == {"Users", "Register", "Message", "Typing"}
MsgTypeTag(mt) ==
    CASE mt = "Users" -> Str("users")
      [] mt = "Register" -> Str("register")
      [] mt = "Message" -> Str("message")
      [] mt = "Typing" -> Str("typing")
\* A tag table that reads "register" as Users.
MsgTypeOfTag_RegisterAsUsers(s) ==
    IF s = Str("register") THEN "Users" ELSE CHOOSE mt \in MsgTypes : MsgTypeTag(mt) = s

MsgTypeOfTag(s) == CHOOSE mt \in MsgTypes : MsgTypeTag(mt) = s
IsMsgTypeTag(s) == \E mt \in MsgTypes : MsgTypeTag(mt) = s

(***************************************************************************)
(* serde_json::to_string for WebSocketMessage (rename_all = "camelCase":   *)
(* messageType, dataArray, data, in declaration order) and TypingStatus    *)
(* (no rename: username, is_typing).                                       *)
(***************************************************************************)
JStrings(q) == [i \in 1..Len(q) |-> JStr(q[i])]
OptStringJson(o) == IF o.some THEN JStr(o.v) ELSE JNull
\* An encoder that writes an empty list as null.
OptArrayJson_EmptyAsNull(o) == IF o.some /\ o.v # <<>> THEN JArr(JStrings(o.v)) ELSE JNull
OptArrayJson(o) == IF o.some THEN JArr(JStrings(o.v)) ELSE JNull

to_string_WebSocketMessage(m) ==
    Doc(<< Member("messageType", JStr(MsgTypeTag(m.message_type))),
           Member("dataArray", OptArrayJson(m.data_array)),
           Member("data", OptStringJson(m.data)) >>)

to_string_TypingStatus(ts) ==
    Doc(<< Member("username", JStr(ts.username)),
           Member("is_typing", JBool(ts.is_typing)) >>)

(***************************************************************************)
(* serde_json::from_str for the derived Deserialize impls: a required      *)
(* field must occur exactly once with a value of its type, an Option field *)
(* may be missing or null, a repeated field is an error, unknown fields    *)
(* are skipped.                                                            *)
(***************************************************************************)
RequiredOk(fs, kind) == Len(fs) = 1 /\ fs[1].v.j = kind
OptionalOk(fs, kind) == Len(fs) = 0 \/ (Len(fs) = 1 /\ fs[1].v.j \in {"null", kind})
OptString(fs) == IF Len(fs) = 1 /\ fs[1].v.j = "str" THEN Some(fs[1].v.s) ELSE None
StringArrayOk(fs) ==
    Len(fs) = 1 /\ fs[1].v.j = "arr" => \A i \in 1..Len(fs[1].v.a) : fs[1].v.a[i].j = "str"
OptStringArray(fs) ==
    IF Len(fs) = 1 /\ fs[1].v.j = "arr"
    THEN Some([i \in 1..Len(fs[1].v.a) |-> fs[1].v.a[i].s])
    ELSE None

from_str_WebSocketMessage(s) ==
    IF s.t # "obj" THEN Err
    ELSE LET mt == Field(s.ms, "messageType")
             da == Field(s.ms, "dataArray")
             d == Field(s.ms, "data")
         IN IF /\ RequiredOk(mt, "str")
               /\ IsMsgTypeTag(mt[1].v.s)
               /\ OptionalOk(da, "arr")
               /\ StringArrayOk(da)
               /\ OptionalOk(d, "str")
            THEN Ok([message_type |-> MsgTypeOfTag(mt[1].v.s),
                     data_array |-> OptStringArray(da),
                     data |-> OptString(d)])
            ELSE Err

from_str_MessageData(s) ==
    IF s.t # "obj" THEN Err
    ELSE LET f == Field(s.ms, "from")
             m == Field(s.ms, "message")
             ts == Field(s.ms, "timestamp")
         IN IF /\ RequiredOk(f, "str")
               /\ RequiredOk(m, "str")
               /\ OptionalOk(ts, "str")
            THEN Ok([from |-> f[1].v.s, message |-> m[1].v.s, timestamp |-> OptString(ts)])
            ELSE Err

from_str_TypingStatus(s) ==
    IF s.t # "obj" THEN Err
    ELSE LET u == Field(s.ms, "username")
             it == Field(s.ms, "is_typing")
         IN IF RequiredOk(u, "str") /\ RequiredOk(it, "bool")
            THEN Ok([username |-> u[1].v.s, is_typing |-> it[1].v.b])
            ELSE Err

(***************************************************************************)
(* String helpers used by the handlers.                                    *)
(***************************************************************************)
IsWhitespace(c) == c = " "

RECURSIVE trim_start(_)
trim_start(cs) ==
    IF cs # <<>> /\ IsWhitespace(Head(cs)) THEN trim_start(Tail(cs)) ELSE cs

RECURSIVE trim_end(_)
trim_end(cs) ==
    IF cs # <<>> /\ IsWhitespace(cs[Len(cs)]) THEN trim_end(SubSeq(cs, 1, Len(cs) - 1)) ELSE cs

\* str::trim; the text of a JSON object starts with "{" and ends with "}".
trim(s) == IF s.t = "raw" THEN Raw(trim_end(trim_start(s.cs))) ELSE s
is_empty(s) == s = EmptyString

\* format!("{}{}", a, b) on plain texts.
Concat(a, b) == Raw(a.cs \o b.cs)

\* format!("https://avatars.dicebear.com/api/adventurer-neutral/{}.svg", u)
avatar(u) == Raw(<<"https://avatars.dicebear.com/api/adventurer-neutral/">> \o u.cs \o <<".svg">>)

\* Option::unwrap_or_default on Option<Vec<String>>
unwrap_or_default(o) == IF o.some THEN o.v ELSE <<>>

(***************************************************************************)
(* The environment: the local user, the frames the event bus delivers, the *)
(* characters typed, the emoji picked and the keys pressed.                *)
(***************************************************************************)
username == Str("me")
NameA == Str("a")
NameB == Str("b")

WireEnvelope(tag, da, d) ==
    Doc(<< Member("messageType", JStr(Str(tag))), Member("dataArray", da), Member("data", d) >>)
WireNames(names) == JArr(JStrings(names))
WireMessageData(from, message) ==
    Doc(<< Member("from", JStr(from)), Member("message", JStr(message)) >>)
WireMessageDataAt(from, message, timestamp) ==
    Doc(<< Member("from", JStr(from)), Member("message", JStr(message)),
           Member("timestamp", JStr(timestamp)) >>)
WireTyping(u, b) == Doc(<< Member("username", JStr(u)), Member("is_typing", JBool(b)) >>)
WireTypingCamel(u, b) == Doc(<< Member("username", JStr(u)), Member("isTyping", JBool(b)) >>)

UsersFrames ==
    { WireEnvelope("users", WireNames(<<NameA, NameB>>), JNull),
      WireEnvelope("users", WireNames(<<NameB>>), JNull),
      WireEnvelope("users", WireNames(<<NameA, NameA>>), JNull),
      WireEnvelope("users", JNull, JNull) }
MessageHi == WireEnvelope("message", JNull, JStr(WireMessageData(NameA, Str("hi"))))
MessageGif ==
    WireEnvelope("message", JNull, JStr(WireMessageDataAt(NameB, Str("x.gif"), Str("10:00"))))
MessagePlain == WireEnvelope("message", JNull, JStr(Str("hi")))
MessageNoData == WireEnvelope("message", JNull, JNull)
TypingFrame(u, b) == WireEnvelope("typing", JNull, JStr(WireTyping(u, b)))
TypingCamel == WireEnvelope("typing", JNull, JStr(WireTypingCamel(NameA, TRUE)))
TypingPlain == WireEnvelope("typing", JNull, JStr(Str("hi")))
TypingNoData == WireEnvelope("typing", JNull, JNull)
RegisterFrame == WireEnvelope("register", JNull, JStr(NameA))
UnknownKind == WireEnvelope("ping", JNull, JNull)
NoKind == Doc(<< Member("data", JStr(NameA)) >>)
NotJson == Str("hi")

\* The frames of Spec, one or more for every path through Msg::HandleMsg.
CoreFrames ==
    UsersFrames
    \cup { MessageHi, MessagePlain, MessageNoData }
    \cup { TypingFrame(NameA, TRUE), TypingFrame(NameA, FALSE), TypingCamel, TypingNoData }
    \cup { RegisterFrame, NotJson }

\* The frames of SpecInbound: two messages, three typists, every malformed shape.
Frames ==
    CoreFrames
    \cup { MessageGif, TypingPlain, UnknownKind, NoKind }
    \cup { TypingFrame(u, b) : u \in {NameA, NameB, username}, b \in BOOLEAN }

Emojis == {"E"}
Keys == {"Enter", "h"}

InputValues == {Raw(<<>>), Raw(<<" ">>), Raw(<<"h">>), Raw(<<" ", "h", " ">>), Raw(<<" ", " ">>)}

(***************************************************************************)
(* State.                                                                  *)
(***************************************************************************)
VARIABLES
    phase,              \* "Connecting" before Chat::create has run, "Active" after
    users,              \* Chat.users
    messages,           \* Chat.messages
    typing_users,       \* Chat.typing_users
    show_emoji_picker,  \* Chat.show_emoji_picker
    typing_timeout,     \* Chat.typing_timeout
    chat_input,         \* chat_input.cast::<HtmlInputElement>() and its value
    pending,            \* messages queued by ctx.link().send_message
    panicked,           \* an unwrap() failed inside update
    sent,               \* the try_send calls of the last trigger, in order
    render,             \* what the last update returned
    codec               \* a serde_json call on a WebSocketMessage: its input and results

vars == <<phase, users, messages, typing_users, show_emoji_picker, typing_timeout,
          chat_input, pending, panicked, sent, render, codec>>

\* No codec call under way.
CodecIdle == [from |-> "idle", e |-> None, x |-> None, e2 |-> None, x2 |-> None]

Init ==
    /\ phase = "Connecting"
    /\ users = <<>>
    /\ messages = <<>>
    /\ typing_users = <<>>
    /\ show_emoji_picker = FALSE
    /\ typing_timeout = None
    /\ chat_input = None
    /\ pending = <<>>
    /\ panicked = FALSE
    /\ sent = <<>>
    /\ render = FALSE
    /\ codec = CodecIdle

(***************************************************************************)
(* wss.tx.try_send(text): the call either succeeds or fails; the handlers  *)
(* only log the outcome.                                                   *)
(***************************************************************************)
try_send(text, ok) == [text |-> text, ok |-> ok]

(***************************************************************************)
(* Chat::create.  The first render follows it before any update runs and   *)
(* binds chat_input to the (empty) input element.                          *)
(***************************************************************************)
\* A Register envelope that leaves the username out.
RegisterMessage_Anonymous ==
    [message_type |-> "Register", data |-> None, data_array |-> None]

RegisterMessage ==
    [message_type |-> "Register", data |-> Some(username), data_array |-> None]

create ==
    /\ phase = "Connecting"
    /\ UNCHANGED codec
    /\ \E ok \in BOOLEAN :
           sent' = <<try_send(to_string_WebSocketMessage(RegisterMessage), ok)>>
    /\ users' = <<>>
    /\ messages' = <<>>
    /\ typing_users' = <<>>
    /\ show_emoji_picker' = FALSE
    /\ typing_timeout' = None
    /\ chat_input' = Some(EmptyString)
    /\ phase' = "Active"
    /\ UNCHANGED <<pending, panicked, render>>

(***************************************************************************)
(* Chat::update.  Yew runs one update to completion before the next, and   *)
(* a message queued with send_message from inside an update runs before    *)
(* any later event.  An unwrap() on None or Err panics: the update does    *)
(* not return and the component handles nothing afterwards.                *)
(***************************************************************************)
Running == phase = "Active" /\ ~panicked
Ready == Running /\ pending = <<>>

Panic ==
    /\ panicked' = TRUE
    /\ render' = FALSE
    /\ UNCHANGED <<users, messages, typing_users>>

Return(b) ==
    /\ panicked' = FALSE
    /\ render' = b

\* A roster that is merged into rather than replaced.
UserProfiles_Merged(users_from_message) ==
    users \o [i \in 1..Len(users_from_message) |->
                 [name |-> users_from_message[i], avatar |-> avatar(users_from_message[i])]]

\* A roster that keeps only the first profile of every name.
UserProfiles_Deduplicated(users_from_message) ==
    LET first == SelectSeq([i \in 1..Len(users_from_message) |-> i],
                           LAMBDA i : \A j \in 1..(i - 1) :
                                         users_from_message[j] # users_from_message[i])
    IN [k \in 1..Len(first) |->
           [name |-> users_from_message[first[k]],
            avatar |-> avatar(users_from_message[first[k]])]]

\* users_from_message.iter().map(|u| UserProfile { .. }).collect()
UserProfiles(users_from_message) ==
    [i \in 1..Len(users_from_message) |->
        [name |-> users_from_message[i], avatar |-> avatar(users_from_message[i])]]

\* A transcript that drops a message it already holds.
messages_push_Deduplicated(msgs, message_data) ==
    IF Contains(msgs, message_data) THEN msgs ELSE Append(msgs, message_data)

\* self.messages.push(message_data)
messages_push(msgs, message_data) == Append(msgs, message_data)

\* A push without the contains() test.
typing_users_push_Unchecked(tu, name) == Append(tu, name)

\* if !self.typing_users.contains(&username) { self.typing_users.push(username) }
typing_users_push(tu, name) == IF Contains(tu, name) THEN tu ELSE Append(tu, name)

\* self.typing_users.retain(|u| u != &username)
typing_users_retain(tu, name) == SelectSeq(tu, LAMBDA u : u # name)

\* A handler in which a message from a user ends that user's typing status.
HandleMsg_MessageClearsTyping(s) ==
    /\ Ready
    /\ UNCHANGED codec
    /\ sent' = <<>>
    /\ UNCHANGED <<phase, show_emoji_picker, typing_timeout, chat_input, pending>>
    /\ LET msg == from_str_WebSocketMessage(s)
           message_data == from_str_MessageData(msg.v.data.v)
           typing_status == from_str_TypingStatus(msg.v.data.v)
       IN \/ /\ ~msg.ok
             /\ Panic
          \/ /\ msg.ok
             /\ msg.v.message_type = "Users"
             /\ users' = UserProfiles(unwrap_or_default(msg.v.data_array))
             /\ Return(TRUE)
             /\ UNCHANGED <<messages, typing_users>>
          \/ /\ msg.ok
             /\ msg.v.message_type = "Message"
             /\ \/ /\ ~msg.v.data.some
                   /\ Panic
                \/ /\ msg.v.data.some
                   /\ ~message_data.ok
                   /\ Panic
                \/ /\ msg.v.data.some
                   /\ message_data.ok
                   /\ Len(messages) < MaxTranscript
                   /\ messages' = messages_push(messages, message_data.v)
                   /\ typing_users' = typing_users_retain(typing_users, message_data.v.from)
                   /\ Return(TRUE)
                   /\ UNCHANGED users
          \/ /\ msg.ok
             /\ msg.v.message_type = "Typing"
             /\ \/ /\ msg.v.data.some
                   /\ ~typing_status.ok
                   /\ Panic
                \/ /\ msg.v.data.some
                   /\ typing_status.ok
                   /\ typing_users' =
                         IF typing_status.v.is_typing
                         THEN typing_users_push(typing_users, typing_status.v.username)
                         ELSE typing_users_retain(typing_users, typing_status.v.username)
                   /\ Return(TRUE)
                   /\ UNCHANGED <<users, messages>>
                \/ /\ ~msg.v.data.some
                   /\ Return(FALSE)
                   /\ UNCHANGED <<users, messages, typing_users>>
          \/ /\ msg.ok
             /\ msg.v.message_type \notin {"Users", "Message", "Typing"}
             /\ Return(FALSE)
             /\ UNCHANGED <<users, messages, typing_users>>

HandleMsg(s) ==
    /\ Ready
    /\ UNCHANGED codec
    /\ sent' = <<>>
    /\ UNCHANGED <<phase, show_emoji_picker, typing_timeout, chat_input, pending>>
    /\ LET msg == from_str_WebSocketMessage(s)
           message_data == from_str_MessageData(msg.v.data.v)
           typing_status == from_str_TypingStatus(msg.v.data.v)
       IN \/ /\ ~msg.ok
             /\ Panic
          \/ /\ msg.ok
             /\ msg.v.message_type = "Users"
             /\ users' = UserProfiles(unwrap_or_default(msg.v.data_array))
             /\ Return(TRUE)
             /\ UNCHANGED <<messages, typing_users>>
          \/ /\ msg.ok
             /\ msg.v.message_type = "Message"
             /\ \/ /\ ~msg.v.data.some
                   /\ Panic
                \/ /\ msg.v.data.some
                   /\ ~message_data.ok
                   /\ Panic
                \/ /\ msg.v.data.some
                   /\ message_data.ok
                   /\ Len(messages) < MaxTranscript
                   /\ messages' = messages_push(messages, message_data.v)
                   /\ Return(TRUE)
                   /\ UNCHANGED <<users, typing_users>>
          \/ /\ msg.ok
             /\ msg.v.message_type = "Typing"
             /\ \/ /\ msg.v.data.some
                   /\ ~typing_status.ok
                   /\ Panic
                \/ /\ msg.v.data.some
                   /\ typing_status.ok
                   /\ typing_users' =
                         IF typing_status.v.is_typing
                         THEN typing_users_push(typing_users, typing_status.v.username)
                         ELSE typing_users_retain(typing_users, typing_status.v.username)
                   /\ Return(TRUE)
                   /\ UNCHANGED <<users, messages>>
                \/ /\ ~msg.v.data.some
                   /\ Return(FALSE)
                   /\ UNCHANGED <<users, messages, typing_users>>
          \/ /\ msg.ok
             /\ msg.v.message_type \notin {"Users", "Message", "Typing"}
             /\ Return(FALSE)
             /\ UNCHANGED <<users, messages, typing_users>>

(***************************************************************************)
(* Chat::send_typing_status: one try_send of a Typing envelope whose data  *)
(* is the encoded TypingStatus of the local user.                          *)
(***************************************************************************)
TypingMessage(is_typing) ==
    [message_type |-> "Typing",
     data |-> Some(to_string_TypingStatus([username |-> username, is_typing |-> is_typing])),
     data_array |-> None]

send_typing_status(is_typing, ok) ==
    try_send(to_string_WebSocketMessage(TypingMessage(is_typing)), ok)

(***************************************************************************)
(* Msg::SubmitMessage, run for a click on the send button and for the      *)
(* message queued by an Enter keydown.                                     *)
(***************************************************************************)
\* A Message envelope that carries the trimmed text.
ChatMessage_Trimmed(input_value) ==
    [message_type |-> "Message", data |-> Some(trim(input_value)), data_array |-> None]

ChatMessage(input_value) ==
    [message_type |-> "Message", data |-> Some(input_value), data_array |-> None]

\* An emptiness test without trim().
is_blank_Untrimmed(input_value) == is_empty(input_value)

is_blank(input_value) == is_empty(trim(input_value))

\* A submit that gives up when the Message send fails.
SubmitEffect_RolledBack(input, ok1, ok2) ==
    IF input.some /\ ~is_empty(trim(input.v))
    THEN IF ok1
         THEN [sent |-> << try_send(to_string_WebSocketMessage(
                               [message_type |-> "Message", data |-> Some(input.v),
                                data_array |-> None]), ok1),
                           send_typing_status(FALSE, ok2) >>,
               chat_input |-> Some(EmptyString)]
         ELSE [sent |-> << try_send(to_string_WebSocketMessage(
                               [message_type |-> "Message", data |-> Some(input.v),
                                data_array |-> None]), ok1) >>,
               chat_input |-> input]
    ELSE [sent |-> <<>>, chat_input |-> input]

\* Lines 153-176: the sends and the input value the handler leaves behind.
SubmitEffect(input, ok1, ok2) ==
    IF input.some /\ ~is_blank(input.v)
    THEN [sent |-> << try_send(to_string_WebSocketMessage(ChatMessage(input.v)), ok1),
                      send_typing_status(FALSE, ok2) >>,
          chat_input |-> Some(EmptyString)]
    ELSE [sent |-> <<>>, chat_input |-> input]

\* A submit that also appends the sent message to the local transcript.
SubmitMessage_EchoesLocally ==
    /\ Running
    /\ UNCHANGED codec
    /\ pending' = IF pending = <<>> THEN pending ELSE Tail(pending)
    /\ \E ok1, ok2 \in BOOLEAN :
          /\ sent' = SubmitEffect(chat_input, ok1, ok2).sent
          /\ chat_input' = SubmitEffect(chat_input, ok1, ok2).chat_input
    /\ messages' = IF chat_input.some /\ ~is_blank(chat_input.v) /\ Len(messages) < MaxTranscript
                   THEN Append(messages, [from |-> username, message |-> chat_input.v,
                                          timestamp |-> None])
                   ELSE messages
    /\ show_emoji_picker' = FALSE
    /\ Return(TRUE)
    /\ UNCHANGED <<phase, users, typing_users, typing_timeout>>

SubmitMessage ==
    /\ Running
    /\ UNCHANGED codec
    /\ pending' = IF pending = <<>> THEN pending ELSE Tail(pending)
    /\ \E ok1, ok2 \in BOOLEAN :
          /\ sent' = SubmitEffect(chat_input, ok1, ok2).sent
          /\ chat_input' = SubmitEffect(chat_input, ok1, ok2).chat_input
    /\ show_emoji_picker' = FALSE
    /\ Return(TRUE)
    /\ UNCHANGED <<phase, users, messages, typing_users, typing_timeout>>

(***************************************************************************)
(* Msg::InputChanged: the browser has changed the input's value to v and   *)
(* fired oninput.                                                          *)
(***************************************************************************)
\* A keystroke handler that stays silent while the last trigger was a keystroke too.
InputChanged_Debounced(v) ==
    /\ Ready
    /\ UNCHANGED codec
    /\ chat_input.some
    /\ v # chat_input.v
    /\ chat_input' = Some(v)
    /\ \E ok \in BOOLEAN :
           sent' = IF Len(sent) = 1 THEN <<>> ELSE <<send_typing_status(TRUE, ok)>>
    /\ Return(FALSE)
    /\ UNCHANGED <<phase, users, messages, typing_users, show_emoji_picker,
                   typing_timeout, pending>>

InputChanged(v) ==
    /\ Ready
    /\ UNCHANGED codec
    /\ chat_input.some
    /\ v # chat_input.v
    /\ chat_input' = Some(v)
    /\ \E ok \in BOOLEAN : sent' = <<send_typing_status(TRUE, ok)>>
    /\ Return(FALSE)
    /\ UNCHANGED <<phase, users, messages, typing_users, show_emoji_picker,
                   typing_timeout, pending>>

\* A toggle that flips the picker and asks for no re-render.
ToggleEmojiPicker_Silent ==
    /\ Ready
    /\ UNCHANGED codec
    /\ show_emoji_picker' = ~show_emoji_picker
    /\ sent' = <<>>
    /\ Return(FALSE)
    /\ UNCHANGED <<phase, users, messages, typing_users, typing_timeout, chat_input, pending>>

ToggleEmojiPicker ==
    /\ Ready
    /\ UNCHANGED codec
    /\ show_emoji_picker' = ~show_emoji_picker
    /\ sent' = <<>>
    /\ Return(TRUE)
    /\ UNCHANGED <<phase, users, messages, typing_users, typing_timeout, chat_input, pending>>

\* An emoji pick that closes the picker.
SelectEmoji_ClosesPicker(emoji) ==
    /\ Ready
    /\ UNCHANGED codec
    /\ show_emoji_picker
    /\ chat_input.some => Len(chat_input.v.cs) < MaxInput
    /\ chat_input' = IF chat_input.some
                     THEN Some(Concat(chat_input.v, Str(emoji)))
                     ELSE chat_input
    /\ sent' = <<>>
    /\ show_emoji_picker' = FALSE
    /\ Return(FALSE)
    /\ UNCHANGED <<phase, users, messages, typing_users, typing_timeout, pending>>

\* The picker's buttons exist only while show_emoji_picker is set.
SelectEmoji(emoji) ==
    /\ Ready
    /\ UNCHANGED codec
    /\ show_emoji_picker
    /\ chat_input.some => Len(chat_input.v.cs) < MaxInput
    /\ chat_input' = IF chat_input.some
                     THEN Some(Concat(chat_input.v, Str(emoji)))
                     ELSE chat_input
    /\ sent' = <<>>
    /\ Return(FALSE)
    /\ UNCHANGED <<phase, users, messages, typing_users, show_emoji_picker,
                   typing_timeout, pending>>

\* A keydown handler that does not look at the shift key.
HandleKeyDown_IgnoresShift(key, shift_key) ==
    /\ Ready
    /\ UNCHANGED codec
    /\ chat_input.some
    /\ sent' = <<>>
    /\ IF key = "Enter"
       THEN /\ pending' = Append(pending, "SubmitMessage")
            /\ Return(TRUE)
       ELSE /\ pending' = pending
            /\ Return(FALSE)
    /\ UNCHANGED <<phase, users, messages, typing_users, show_emoji_picker,
                   typing_timeout, chat_input>>

HandleKeyDown(key, shift_key) ==
    /\ Ready
    /\ UNCHANGED codec
    /\ chat_input.some
    /\ sent' = <<>>
    /\ IF key = "Enter" /\ ~shift_key
       THEN /\ pending' = Append(pending, "SubmitMessage")
            /\ Return(TRUE)
       ELSE /\ pending' = pending
            /\ Return(FALSE)
    /\ UNCHANGED <<phase, users, messages, typing_users, show_emoji_picker,
                   typing_timeout, chat_input>>

(***************************************************************************)
(* Chat::view: the typing indicator text.                                  *)
(***************************************************************************)
\* An indicator that stops naming the typists from two on.
typing_text_FromTwo(tu) ==
    IF tu # <<>>
    THEN IF Len(tu) = 1
         THEN Raw(tu[1].cs \o <<" is typing...">>)
         ELSE Str("Several people are typing...")
    ELSE EmptyString

typing_text(tu) ==
    IF tu # <<>>
    THEN IF Len(tu) = 1
         THEN Raw(tu[1].cs \o <<" is typing...">>)
         ELSE IF Len(tu) = 2
              THEN Raw(tu[1].cs \o <<" and ">> \o tu[2].cs \o <<" are typing...">>)
              ELSE Str("Several people are typing...")
    ELSE EmptyString

Next ==
    \/ create
    \/ \E s \in CoreFrames : HandleMsg(s)
    \/ SubmitMessage
    \/ \E v \in InputValues : InputChanged(v)
    \/ ToggleEmojiPicker
    \/ \E emoji \in Emojis : SelectEmoji(emoji)
    \/ \E key \in Keys, shift_key \in BOOLEAN : HandleKeyDown(key, shift_key)

Spec == Init /\ [][Next]_vars

\* The scheduler runs a message queued with send_message: the queued
\* SubmitMessage is not left waiting for ever.
QueuedSubmit == pending # <<>> /\ SubmitMessage

SpecLive == Init /\ [][Next]_vars /\ WF_vars(QueuedSubmit)

\* The component driven by the event bus alone.
NextInbound ==
    \/ create
    \/ \E s \in Frames : HandleMsg(s)

SpecInbound == Init /\ [][NextInbound]_vars

(***************************************************************************)
(* The wire codec on its own: serde_json::to_string and                    *)
(* serde_json::from_str on a WebSocketMessage, one after the other, from   *)
(* an envelope or from a text.                                             *)
(***************************************************************************)
Payloads == {None, Some(EmptyString), Some(NameA), Some(WireTyping(NameA, TRUE))}
NameLists == {None, Some(<<>>), Some(<<NameA>>), Some(<<NameA, NameB>>)}
Envelopes == [message_type : MsgTypes, data_array : NameLists, data : Payloads]

\* Texts that decode although the encoder never writes them: the optional
\* keys left out, the keys in another order, a key the struct does not have.
ShortUsers == Doc(<< Member("messageType", JStr(Str("users"))) >>)
ReorderedRegister ==
    Doc(<< Member("data", JStr(NameA)), Member("messageType", JStr(Str("register"))),
           Member("dataArray", JNull) >>)
ExtraKey ==
    Doc(<< Member("messageType", JStr(Str("message"))), Member("dataArray", JNull),
           Member("data", JStr(NameA)), Member("id", JStr(NameB)) >>)

EnvelopeTexts ==
    {to_string_WebSocketMessage(e) : e \in Envelopes}
    \cup Frames
    \cup { ShortUsers, ReorderedRegister, ExtraKey }

CodecInputs ==
    {[CodecIdle EXCEPT !.from = "envelope", !.e = Some(Ok(e))] : e \in Envelopes}
    \cup {[CodecIdle EXCEPT !.from = "text", !.x = Some(x)] : x \in EnvelopeTexts}

InitCodec ==
    /\ phase = "Connecting"
    /\ users = <<>>
    /\ messages = <<>>
    /\ typing_users = <<>>
    /\ show_emoji_picker = FALSE
    /\ typing_timeout = None
    /\ chat_input = None
    /\ pending = <<>>
    /\ panicked = FALSE
    /\ sent = <<>>
    /\ render = FALSE
    /\ codec \in CodecInputs

\* serde_json::to_string(&message): of the given envelope, or of the envelope
\* a text decoded to.
Encode ==
    /\ \/ /\ codec.from = "envelope"
          /\ ~codec.x.some
          /\ codec' = [codec EXCEPT !.x = Some(to_string_WebSocketMessage(codec.e.v.v))]
       \/ /\ codec.from = "text"
          /\ codec.e.some
          /\ codec.e.v.ok
          /\ ~codec.x2.some
          /\ codec' = [codec EXCEPT !.x2 = Some(to_string_WebSocketMessage(codec.e.v.v))]
    /\ UNCHANGED <<phase, users, messages, typing_users, show_emoji_picker,
                   typing_timeout, chat_input, pending, panicked, sent, render>>

\* serde_json::from_str(&s): of the given text, or of the text an envelope
\* was encoded to.
Decode ==
    /\ \/ /\ codec.from = "text"
          /\ ~codec.e.some
          /\ codec' = [codec EXCEPT !.e = Some(from_str_WebSocketMessage(codec.x.v))]
       \/ /\ codec.from = "envelope"
          /\ codec.x.some
          /\ ~codec.e2.some
          /\ codec' = [codec EXCEPT !.e2 = Some(from_str_WebSocketMessage(codec.x.v))]
    /\ UNCHANGED <<phase, users, messages, typing_users, show_emoji_picker,
                   typing_timeout, chat_input, pending, panicked, sent, render>>

NextCodec ==
    \/ Encode
    \/ Decode

SpecCodec == InitCodec /\ [][NextCodec]_vars

(***************************************************************************)
(* Vocabulary of the properties.                                           *)
(***************************************************************************)
Envelope(s) == from_str_WebSocketMessage(s)
IsEnvelopeOf(s, kind) == Envelope(s).ok /\ Envelope(s).v.message_type = kind

\* Not a valid envelope, or a Message/Typing envelope whose string payload
\* does not decode.
IsMalformedFrame(s) ==
    \/ ~Envelope(s).ok
    \/ /\ IsEnvelopeOf(s, "Message")
       /\ Envelope(s).v.data.some
       /\ ~from_str_MessageData(Envelope(s).v.data.v).ok
    \/ /\ IsEnvelopeOf(s, "Typing")
       /\ Envelope(s).v.data.some
       /\ ~from_str_TypingStatus(Envelope(s).v.data.v).ok

\* A valid envelope that lacks the payload its kind calls for.
IsShapeMismatch(s) ==
    \/ IsEnvelopeOf(s, "Users") /\ ~Envelope(s).v.data_array.some
    \/ IsEnvelopeOf(s, "Message") /\ ~Envelope(s).v.data.some
    \/ IsEnvelopeOf(s, "Typing") /\ ~Envelope(s).v.data.some

StoresUnchanged ==
    /\ users' = users
    /\ messages' = messages
    /\ typing_users' = typing_users

\* C1: a malformed inbound frame is discarded without crashing the session:
\* after it the session still handles triggers, and users, messages and
\* typing_users are what they were before the frame.
C1_MalformedFrameDiscarded ==
    [][\A s \in Frames :
          (IsMalformedFrame(s) /\ HandleMsg(s)) => (~panicked' /\ StoresUnchanged)]_vars

\* C6: an inbound envelope without the payload of its kind (Users without a
\* list, Message or Typing without a string) is rejected: users, messages and
\* typing_users are unchanged, no re-render is signalled, the session goes on.
C6_ShapeMismatchRejected ==
    [][\A s \in Frames :
          (IsShapeMismatch(s) /\ HandleMsg(s)) =>
              (StoresUnchanged /\ render' = FALSE /\ ~panicked')]_vars

\* The names a Users envelope lists, read off the wire text.
NamesOf(s) ==
    LET da == Field(s.ms, "dataArray")
    IN IF Len(da) = 1 /\ da[1].v.j = "arr"
       THEN [i \in 1..Len(da[1].v.a) |-> da[1].v.a[i].s]
       ELSE <<>>

RosterOf(names) ==
    [i \in 1..Len(names) |-> [name |-> names[i], avatar |-> avatar(names[i])]]

\* C2: handling a Users envelope leaves the roster equal to the names of that
\* envelope, in order and of the same length, each with avatar(name); every
\* other trigger leaves the roster alone, so the roster is always that of the
\* most recently handled Users envelope.
C2_RosterIsLatestUsersEnvelope ==
    [][/\ \A s \in UsersFrames :
              HandleMsg(s) =>
                  /\ Len(users') = Len(NamesOf(s))
                  /\ users' = RosterOf(NamesOf(s))
       /\ (~ \E s \in UsersFrames : HandleMsg(s)) => users' = users]_vars

\* C2 witness: the roster of the envelope ["b"], with the derived avatar.
C2_Witness ==
    /\ users = << [name |-> NameB,
                   avatar |-> Raw(<<"https://avatars.dicebear.com/api/adventurer-neutral/",
                                    "b", ".svg">>)] >>
    /\ messages # <<>>
    /\ sent # <<>>

NoDuplicates(q) == \A i, j \in 1..Len(q) : q[i] = q[j] => i = j

\* q with its element at position k taken out.
RemoveAt(q, k) == SubSeq(q, 1, k - 1) \o SubSeq(q, k + 1, Len(q))

\* The TypingStatus a well-formed Typing envelope carries.
TypingStatusOf(s) == from_str_TypingStatus(Envelope(s).v.data.v)
IsTypingStatus(s) ==
    IsEnvelopeOf(s, "Typing") /\ Envelope(s).v.data.some /\ TypingStatusOf(s).ok

TypingStatusFrames == {s \in Frames : IsTypingStatus(s)}

\* C3: typing_users never holds a username twice; Typing(true) for a present
\* username and Typing(false) for an absent one leave it unchanged; and
\* Typing(false) for a present username removes that username alone, the
\* others keeping their order.
C3_TypingUsersNoDuplicates ==
    [][/\ NoDuplicates(typing_users) /\ NoDuplicates(typing_users')
       /\ \A s \in TypingStatusFrames :
              HandleMsg(s) =>
                  LET u == TypingStatusOf(s).v.username
                      on == TypingStatusOf(s).v.is_typing
                  IN /\ (on /\ Contains(typing_users, u)) => typing_users' = typing_users
                     /\ (on /\ ~Contains(typing_users, u)) =>
                            typing_users' = typing_users \o <<u>>
                     /\ (~on /\ ~Contains(typing_users, u)) => typing_users' = typing_users
                     /\ (~on /\ Contains(typing_users, u)) =>
                            \E k \in 1..Len(typing_users) :
                                /\ typing_users[k] = u
                                /\ typing_users' = RemoveAt(typing_users, k)]_vars

\* C3 witness: three typists; the order shows that "a" left and came back.
C3_Witness == typing_users = <<NameB, username, NameA>>

IsPrefix(p, q) == Len(p) <= Len(q) /\ SubSeq(q, 1, Len(p)) = p

\* The MessageData a well-formed Message envelope carries.
MessageDataOf(s) == from_str_MessageData(Envelope(s).v.data.v)
IsMessageData(s) ==
    IsEnvelopeOf(s, "Message") /\ Envelope(s).v.data.some /\ MessageDataOf(s).ok

MessageDataFrames == {s \in Frames : IsMessageData(s)}

\* C7: the transcript only grows at its end: every step keeps the old
\* transcript as a prefix, and a well-formed Message envelope appends exactly
\* one entry, the sender, body and timestamp of its payload.
C7_TranscriptAppendOnly ==
    [][/\ IsPrefix(messages, messages')
       /\ \A s \in MessageDataFrames :
              HandleMsg(s) =>
                  /\ Len(messages') = Len(messages) + 1
                  /\ messages'[Len(messages')] = MessageDataOf(s).v
       /\ HandleMsg(MessageHi) =>
              messages' = messages \o
                  << [from |-> NameA, message |-> Str("hi"), timestamp |-> None] >>
       /\ HandleMsg(MessageGif) =>
              messages' = messages \o
                  << [from |-> NameB, message |-> Str("x.gif"),
                      timestamp |-> Some(Str("10:00"))] >>]_vars

\* C7 witness: the same Message envelope handled twice gives two entries.
C7_Witness ==
    messages = << [from |-> NameA, message |-> Str("hi"), timestamp |-> None],
                  [from |-> NameA, message |-> Str("hi"), timestamp |-> None] >>

(***************************************************************************)
(* Outbound envelopes as they appear on the wire.                          *)
(***************************************************************************)
RegisterText(name) == WireEnvelope("register", JNull, JStr(name))
MessageText(text) == WireEnvelope("message", JNull, JStr(text))
TypingText(name, on) == WireEnvelope("typing", JNull, JStr(WireTyping(name, on)))

AllWhitespace(s) == \A i \in 1..Len(s.cs) : s.cs[i] = " "
SubmitOfText == SubmitMessage /\ chat_input.some /\ ~AllWhitespace(chat_input.v)
SubmitOfBlank == SubmitMessage /\ chat_input.some /\ AllWhitespace(chat_input.v)
Texts(q) == [i \in 1..Len(q) |-> q[i].text]

C5_BlankSubmitSendsNothing ==
    [][SubmitOfBlank =>
          /\ sent' = <<>>
          /\ chat_input' = chat_input
          /\ show_emoji_picker' = FALSE
          /\ render' = TRUE]_vars

\* C5 witness: the whitespace-only input is still there after an Enter keydown
\* and the submit it queued.
C5_Witness ==
    /\ chat_input = Some(Raw(<<" ", " ">>))
    /\ sent = <<>>
    /\ render = TRUE
    /\ show_emoji_picker = FALSE
    /\ pending = <<>>
    /\ panicked = FALSE

\* C8: a failed Message send rolls nothing back: the input is still cleared,
\* Typing(false) is still sent, the picker is closed, the session goes on, and
\* the state left behind does not depend on the outcome of either send.
C8_FailedSendNotRolledBack ==
    [][SubmitOfText =>
          /\ Len(sent') = 2
          /\ sent'[2].text = TypingText(username, FALSE)
          /\ chat_input' = Some(EmptyString)
          /\ show_emoji_picker' = FALSE
          /\ panicked' = FALSE
          /\ phase' = "Active"
          /\ StoresUnchanged
          /\ pending' = (IF pending = <<>> THEN <<>> ELSE Tail(pending))]_vars

\* C8 witness: both sends of a submit failed and the input is empty.
C8_Witness ==
    /\ Len(sent) = 2
    /\ sent[1].text = MessageText(Str("h"))
    /\ sent[1].ok = FALSE
    /\ sent[2].ok = FALSE
    /\ chat_input = Some(EmptyString)
    /\ panicked = FALSE

IsRegister(e) == IsEnvelopeOf(e.text, "Register")

\* C9: nothing is sent before create; create sends one Register envelope with
\* the local username and leaves the session Active with empty users, messages
\* and typing_users and the picker closed, whatever the send's outcome; no
\* later trigger sends a Register envelope or leaves Active.
C9_RegisterOnceAtStart ==
    /\ phase = "Connecting" /\ sent = <<>>
    /\ [][/\ phase = "Connecting" =>
                 /\ Texts(sent') = << RegisterText(username) >>
                 /\ phase' = "Active"
                 /\ users' = <<>> /\ messages' = <<>> /\ typing_users' = <<>>
                 /\ show_emoji_picker' = FALSE
          /\ phase = "Active" =>
                 /\ \A i \in 1..Len(sent') : ~IsRegister(sent'[i])
                 /\ phase' = "Active"]_vars

\* C9 witness: the Register send failed and the session is Active.
C9_Witness ==
    /\ phase = "Active"
    /\ sent = << [text |-> RegisterText(username), ok |-> FALSE] >>
    /\ users = <<>> /\ messages = <<>> /\ typing_users = <<>>
    /\ show_emoji_picker = FALSE

C11_TypingIndicatorText ==
    /\ typing_users = <<>> => typing_text(typing_users) = Raw(<<>>)
    /\ \A a \in {NameA, NameB, username} :
          /\ typing_users = <<a>> =>
                 typing_text(typing_users) = Raw(a.cs \o <<" is typing...">>)
          /\ \A b \in {NameA, NameB, username} :
                 typing_users = <<a, b>> =>
                     typing_text(typing_users) =
                         Raw(a.cs \o <<" and ">> \o b.cs \o <<" are typing...">>)
    /\ Len(typing_users) >= 3 =>
           typing_text(typing_users) = Raw(<<"Several people are typing...">>)
    /\ typing_users = <<NameB, NameA>> =>
           typing_text(typing_users) = Raw(<<"b", " and ", "a", " are typing...">>)

\* C11 witness: three typists, shown as "Several people are typing...".
C11_Witness ==
    /\ Len(typing_users) = 3
    /\ typing_text(typing_users) = Raw(<<"Several people are typing...">>)


RosterNames(r) == [i \in 1..Len(r) |-> r[i].name]

\* C12, as claimed: in every reachable state the names of the roster are
\* pairwise distinct, also after a Users envelope that repeats a name.
C12_RosterNamesUnique == NoDuplicates(RosterNames(users))

\* C12, amended: the roster lists the names of the latest Users envelope as
\* they came, so its names are pairwise distinct exactly when that envelope's
\* names were; a name the envelope repeats is repeated in the roster, and no
\* other trigger changes the roster's names.
C12_RosterNamesAsListed ==
    [][/\ \A s \in UsersFrames :
              HandleMsg(s) =>
                  /\ RosterNames(users') = NamesOf(s)
                  /\ NoDuplicates(RosterNames(users')) <=> NoDuplicates(NamesOf(s))
       /\ (~ \E s \in UsersFrames : HandleMsg(s)) =>
              RosterNames(users') = RosterNames(users)]_vars

\* C12 witness: the envelope ["a", "a"] left the roster with "a" twice.
C12_Witness ==
    /\ RosterNames(users) = <<NameA, NameA>>
    /\ ~NoDuplicates(RosterNames(users))


\* The frames whose kind tag is "register".
RegisterFrames ==
    {s \in Frames :
        /\ s.t = "obj"
        /\ Field(s.ms, "messageType") = << Member("messageType", JStr(Str("register"))) >>}

\* C13: an inbound Register envelope changes none of users, messages,
\* typing_users and show_emoji_picker, sends nothing, signals no re-render,
\* and the session goes on.
C13_InboundRegisterIgnored ==
    [][\A s \in RegisterFrames :
          HandleMsg(s) =>
              /\ StoresUnchanged
              /\ show_emoji_picker' = show_emoji_picker
              /\ sent' = <<>>
              /\ render' = FALSE
              /\ panicked' = FALSE]_vars

\* C13 witness: a session with a roster, a typist, a message and the picker
\* open, right after a trigger that sent nothing and asked for no re-render.
C13_Witness ==
    /\ RegisterFrames # {}
    /\ users # <<>> /\ messages # <<>> /\ typing_users # <<>>
    /\ show_emoji_picker = TRUE
    /\ chat_input = Some(Str("h"))
    /\ sent = <<>>
    /\ render = FALSE
    /\ panicked = FALSE


\* C14: an Enter keydown without shift queues one submit and does nothing
\* else; the queued submit is the next step and has the effects of a submit on
\* the input as it stood at the keydown; it does run; and a keydown with shift
\* held or of another key sends nothing and changes nothing.
C14_EnterKeySubmits ==
    /\ [][/\ HandleKeyDown("Enter", FALSE) =>
                 /\ pending' = <<"SubmitMessage">>
                 /\ sent' = <<>>
                 /\ chat_input' = chat_input
                 /\ show_emoji_picker' = show_emoji_picker
                 /\ StoresUnchanged
          /\ pending # <<>> =>
                 /\ pending' = <<>>
                 /\ Texts(sent') =
                        IF AllWhitespace(chat_input.v) THEN <<>>
                        ELSE << MessageText(chat_input.v), TypingText(username, FALSE) >>
                 /\ chat_input' =
                        IF AllWhitespace(chat_input.v) THEN chat_input ELSE Some(EmptyString)
                 /\ show_emoji_picker' = FALSE
                 /\ render' = TRUE
                 /\ StoresUnchanged
          /\ \A key \in Keys, shift_key \in BOOLEAN :
                 ((key # "Enter" \/ shift_key) /\ HandleKeyDown(key, shift_key)) =>
                     /\ pending' = pending
                     /\ sent' = <<>>
                     /\ render' = FALSE
                     /\ chat_input' = chat_input
                     /\ show_emoji_picker' = show_emoji_picker
                     /\ StoresUnchanged]_vars
    /\ (pending # <<>>) ~> (pending = <<>>)

\* C14 witness: Enter was pressed on the input "h" with the picker open; the
\* submit is queued and nothing has been sent yet.
C14_Witness ==
    /\ pending = <<"SubmitMessage">>
    /\ chat_input = Some(Str("h"))
    /\ show_emoji_picker = TRUE
    /\ sent = <<>>
    /\ render = TRUE


\* The keys of the inner payload of an outbound envelope.
PayloadOf(e) == Envelope(e.text).v.data
PayloadKeys(e) == {PayloadOf(e).v.ms[i].k : i \in 1..Len(PayloadOf(e).v.ms)}

\* C15, as claimed: the inner payload of every outbound Typing envelope is an
\* object with exactly the keys "username" and "isTyping".
C15_TypingPayloadKeys ==
    \A i \in 1..Len(sent) :
        IsEnvelopeOf(sent[i].text, "Typing") =>
            /\ PayloadOf(sent[i]).some
            /\ PayloadOf(sent[i]).v.t = "obj"
            /\ Len(PayloadOf(sent[i]).v.ms) = 2
            /\ PayloadKeys(sent[i]) = {"username", "isTyping"}


\* The form the encoder writes: the three keys once each, in the struct's order.
Canonical(x) ==
    /\ x.t = "obj"
    /\ [i \in 1..Len(x.ms) |-> x.ms[i].k] = <<"messageType", "dataArray", "data">>

DecodedBack == codec.from = "envelope" /\ codec.e2.some
EncodedBack == codec.from = "text" /\ codec.x2.some

\* C16, as claimed: decode(encode(e)) = e for every envelope e, and
\* encode(decode(x)) = x for every text x that decodes.
C16_CodecRoundTrips ==
    /\ DecodedBack => codec.e2.v = Ok(codec.e.v.v)
    /\ EncodedBack => codec.x2.v = codec.x.v

\* C16, amended: decode(encode(e)) = e for every envelope e; a text x that
\* decodes is encoded back to x exactly when x is in the encoder's form, and
\* otherwise to the text in that form that decodes to the same envelope.
C16_CodecRoundTripsCanonical ==
    /\ DecodedBack => codec.e2.v = Ok(codec.e.v.v)
    /\ EncodedBack =>
           /\ codec.x2.v = codec.x.v <=> Canonical(codec.x.v)
           /\ Canonical(codec.x2.v)
           /\ from_str_WebSocketMessage(codec.x2.v) = codec.e.v

\* C16 witness: the text of a Users envelope listing two names was decoded and
\* encoded back to itself.
C16_Witness ==
    /\ EncodedBack
    /\ codec.x.v = WireEnvelope("users", WireNames(<<NameA, NameB>>), JNull)
    /\ codec.e.v = Ok([message_type |-> "Users", data_array |-> Some(<<NameA, NameB>>), data |-> None])
    /\ codec.x2.v = codec.x.v


\* C17: a step that changes users, messages, typing_users or
\* show_emoji_picker is a step whose update returns true.
C17_ChangeSignalsRender ==
    [][(\/ users' # users
        \/ messages' # messages
        \/ typing_users' # typing_users
        \/ show_emoji_picker' # show_emoji_picker) => render' = TRUE]_vars

\* C17 witness: the picker has just been opened, on top of a roster, a
\* transcript and a typist that inbound envelopes wrote, and the re-render is
\* signalled.
C17_Witness ==
    /\ show_emoji_picker = TRUE
    /\ render = TRUE
    /\ users # <<>>
    /\ messages # <<>>
    /\ typing_users # <<>>
    /\ sent = <<>>

\* C18: show_emoji_picker starts false; a toggle flips it; a submit, blank or
\* not, sets it to false; every other step (an emoji pick, a keystroke, a
\* keydown, an inbound envelope, create) leaves it as it is.  By induction it
\* is true exactly after an odd number of toggles since the start or the last
\* submit.
C18_PickerFollowsToggles ==
    /\ show_emoji_picker = FALSE
    /\ [][/\ ToggleEmojiPicker => show_emoji_picker' = ~show_emoji_picker
          /\ SubmitMessage => show_emoji_picker' = FALSE
          /\ ~(ToggleEmojiPicker \/ SubmitMessage) =>
                 show_emoji_picker' = show_emoji_picker]_vars

\* C18 witness: an emoji was picked after a keystroke and the picker is still
\* open.
C18_Witness ==
    /\ show_emoji_picker = TRUE
    /\ chat_input = Some(Raw(<<"h", "E">>))
    /\ render = FALSE


MessageFrames == {s \in Frames : IsEnvelopeOf(s, "Message")}
TypingFrames == {s \in Frames : IsEnvelopeOf(s, "Typing")}

\* C19: each inbound kind writes only its own store: a Users envelope leaves
\* messages and typing_users as they are, a Message envelope leaves users and
\* typing_users as they are, a Typing envelope leaves users and messages as
\* they are.
C19_InboundKindWritesOwnStore ==
    [][/\ \A s \in UsersFrames :
              HandleMsg(s) => messages' = messages /\ typing_users' = typing_users
       /\ \A s \in MessageFrames :
              HandleMsg(s) => users' = users /\ typing_users' = typing_users
       /\ \A s \in TypingFrames :
              HandleMsg(s) => users' = users /\ messages' = messages]_vars

\* C19 witness: a is still typing although the roster lists b alone and the
\* last message of the transcript is from a.
C19_Witness ==
    /\ typing_users = <<NameA>>
    /\ RosterNames(users) = <<NameB>>
    /\ messages # <<>>
    /\ messages[Len(messages)].from = NameA
    /\ render = TRUE


LocalIntent ==
    \/ SubmitMessage
    \/ \E v \in InputValues : InputChanged(v)
    \/ ToggleEmojiPicker
    \/ \E emoji \in Emojis : SelectEmoji(emoji)
    \/ \E key \in Keys, shift_key \in BOOLEAN : HandleKeyDown(key, shift_key)

\* C20: no local intent changes users, messages or typing_users, and a step
\* that changes one of them is the handling of an inbound envelope.
C20_LocalIntentsKeepStores ==
    [][/\ LocalIntent => StoresUnchanged
       /\ ~StoresUnchanged => \E s \in CoreFrames : HandleMsg(s)]_vars

\* C20 witness: a message and Typing(false) of the local user have just been
\* sent; the transcript is still empty and the local user is not among the
\* typists, while the roster holds what a Users envelope wrote.
C20_Witness ==
    /\ Len(sent) = 2
    /\ sent[1].text = MessageText(Str("h"))
    /\ sent[2].text = TypingText(username, FALSE)
    /\ messages = <<>>
    /\ typing_users = <<>>
    /\ users # <<>>

====
